---- MODULE Spec2Model ----
(***************************************************************************)
(* Model of scripts/imdb_hash_extractor.py: main, extract_imdb_graphql_hash *)
(* and get_crawl4ai_server_url.                                             *)
(*                                                                          *)
(* Text (URLs, parameter values, JSON documents) is a sequence of tokens.   *)
(* A token is a block of characters that the code never looks inside of:    *)
(* "operationName=", "&", "WatchListPage", "%7B", ...  Substring tests and  *)
(* regular expressions of the source are computed on these sequences.       *)
(***************************************************************************)
EXTENDS Integers, Sequences, FiniteSets, TLC

\* Largest number of network events a crawl result carries.
MaxEvents == 2

None == <<>>

----------------------------------------------------------------------------
(* Text helpers *)

\* `needle in text` of Python, on token sequences.
Contains(needle, text) ==
  \E i \in 1..(Len(text) - Len(needle) + 1) :
      SubSeq(text, i, i + Len(needle) - 1) = needle

\* Length of the longest run of tokens other than "&" starting at position i.
RECURSIVE RunLen(_, _)
RunLen(text, i) ==
  IF i > Len(text) \/ text[i] = "&" THEN 0 ELSE 1 + RunLen(text, i + 1)

\* re.search(name + r'([^&]+)', text).group(1); None when there is no match.
\* The leftmost position where `name` is followed by at least one token other
\* than "&" is the match, the group is the whole run up to the next "&".
ReSearchParam(name, text) ==
  LET hits == { i \in 1..Len(text) : text[i] = name /\ RunLen(text, i + 1) > 0 }
  IN  IF hits = {} THEN None
      ELSE LET i == CHOOSE j \in hits : \A k \in hits : j <= k
           IN  SubSeq(text, i + 1, i + RunLen(text, i + 1))

\* urllib.parse.unquote on one token: a percent escape becomes its character,
\* anything else is kept.
UnquoteToken(tok) ==
  CASE tok = "%7B" -> "{"
    [] tok = "%7D" -> "}"
    [] tok = "%5B" -> "["
    [] tok = "%5D" -> "]"
    [] tok = "%22" -> "\""
    [] tok = "%3A" -> ":"
    [] tok = "%2C" -> ","
    [] tok = "%25" -> "%"
    [] OTHER -> tok

unquote(text) == [i \in 1..Len(text) |-> UnquoteToken(text[i])]

----------------------------------------------------------------------------
(* json.loads.  A JSON value is a record tagged by t:                       *)
(*   [t |-> "str", s |-> tokens]   [t |-> "num", n |-> token]               *)
(*   [t |-> "null"]                [t |-> "list", items |-> values]         *)
(*   [t |-> "dict", members |-> sequence of [k |-> tokens, val |-> value]]  *)

NumTokens == {"1", "5"}

ParseFail == [ok |-> FALSE]

\* Position of the first quote at or after i, 0 when there is none.
RECURSIVE NextQuote(_, _)
NextQuote(toks, i) ==
  IF i > Len(toks) THEN 0
  ELSE IF toks[i] = "\"" THEN i ELSE NextQuote(toks, i + 1)

ParseString(toks) ==
  IF toks = <<>> \/ Head(toks) # "\"" THEN ParseFail
  ELSE LET j == NextQuote(toks, 2)
       IN  IF j = 0 THEN ParseFail
           ELSE [ok |-> TRUE,
                 val |-> [t |-> "str", s |-> SubSeq(toks, 2, j - 1)],
                 rest |-> SubSeq(toks, j + 1, Len(toks))]

RECURSIVE ParseValue(_), ParseElements(_, _), ParseMembers(_, _)
ParseValue(toks) ==
  IF toks = <<>> THEN ParseFail
  ELSE LET h == Head(toks)
       IN  CASE h = "\"" -> ParseString(toks)
             [] h \in NumTokens ->
                  [ok |-> TRUE, val |-> [t |-> "num", n |-> h], rest |-> Tail(toks)]
             [] h = "null" ->
                  [ok |-> TRUE, val |-> [t |-> "null"], rest |-> Tail(toks)]
             [] h = "[" ->
                  IF Len(toks) > 1 /\ toks[2] = "]"
                  THEN [ok |-> TRUE, val |-> [t |-> "list", items |-> <<>>],
                        rest |-> SubSeq(toks, 3, Len(toks))]
                  ELSE ParseElements(Tail(toks), <<>>)
             [] h = "{" ->
                  IF Len(toks) > 1 /\ toks[2] = "}"
                  THEN [ok |-> TRUE, val |-> [t |-> "dict", members |-> <<>>],
                        rest |-> SubSeq(toks, 3, Len(toks))]
                  ELSE ParseMembers(Tail(toks), <<>>)
             [] OTHER -> ParseFail

ParseElements(toks, acc) ==
  LET r == ParseValue(toks)
  IN  IF ~r.ok \/ r.rest = <<>> THEN ParseFail
      ELSE IF Head(r.rest) = ","
           THEN ParseElements(Tail(r.rest), Append(acc, r.val))
      ELSE IF Head(r.rest) = "]"
           THEN [ok |-> TRUE, val |-> [t |-> "list", items |-> Append(acc, r.val)],
                 rest |-> Tail(r.rest)]
      ELSE ParseFail

ParseMembers(toks, acc) ==
  LET key == ParseString(toks)
  IN  IF ~key.ok \/ key.rest = <<>> \/ Head(key.rest) # ":" THEN ParseFail
      ELSE LET r == ParseValue(Tail(key.rest))
               m == Append(acc, [k |-> key.val.s, val |-> r.val])
           IN  IF ~r.ok \/ r.rest = <<>> THEN ParseFail
               ELSE IF Head(r.rest) = ","
                    THEN ParseMembers(Tail(r.rest), m)
               ELSE IF Head(r.rest) = "}"
                    THEN [ok |-> TRUE, val |-> [t |-> "dict", members |-> m],
                          rest |-> Tail(r.rest)]
               ELSE ParseFail

\* json.loads(text): the value, or JSONDecodeError when the text is not one
\* JSON document.
json_loads(text) ==
  LET r == ParseValue(text)
  IN  IF r.ok /\ r.rest = <<>> THEN [ok |-> TRUE, val |-> r.val]
      ELSE [ok |-> FALSE, err |-> "JSONDecodeError"]

\* `key in v` of Python for a str key: "True", "False" or "TypeError".
PyIn(key, v) ==
  CASE v.t = "dict" ->
         IF \E i \in 1..Len(v.members) : v.members[i].k = <<key>>
         THEN "True" ELSE "False"
    [] v.t = "list" ->
         IF \E i \in 1..Len(v.items) :
               v.items[i].t = "str" /\ v.items[i].s = <<key>>
         THEN "True" ELSE "False"
    [] v.t = "str" -> IF Contains(<<key>>, v.s) THEN "True" ELSE "False"
    [] OTHER -> "TypeError"

\* `v[key]` of Python for a str key, where PyIn(key, v) = "True": the value of
\* a dict (the last member of that name), TypeError for a list or a str.
PyGetItem(v, key) ==
  IF v.t = "dict"
  THEN LET hits == { i \in 1..Len(v.members) : v.members[i].k = <<key>> }
           i == CHOOSE j \in hits : \A k \in hits : k <= j
       IN  [ok |-> TRUE, val |-> v.members[i].val]
  ELSE [ok |-> FALSE, err |-> "TypeError"]

----------------------------------------------------------------------------
(* The try block that pulls the hash out of one request URL: the *)
(* `extensions` parameter is found, unquoted, decoded and searched.         *)
(* outcome "hash": the return statement is reached with `value`;            *)
(* outcome "none": no branch returns and nothing is raised;                 *)
(* outcome "caught": json.JSONDecodeError or KeyError, handled by the       *)
(*                   except clause (continue);                              *)
(* outcome "raise": an exception the except clause does not name leaves     *)
(*                  the try block.                                          *)
ExtractHash(request_url) ==
  IF ~Contains(<<"extensions=">>, request_url) THEN [outcome |-> "none"]
  ELSE LET extensions_encoded == ReSearchParam("extensions=", request_url)
       IN  IF extensions_encoded = None THEN [outcome |-> "none"]
           ELSE
           LET extensions_data == json_loads(unquote(extensions_encoded))
           IN  IF ~extensions_data.ok
               THEN [outcome |-> "caught", err |-> "JSONDecodeError"]
               ELSE
               LET in1 == PyIn("persistedQuery", extensions_data.val)
               IN  IF in1 = "TypeError" THEN [outcome |-> "raise", err |-> "TypeError"]
                   ELSE IF in1 = "False" THEN [outcome |-> "none"]
                   ELSE
                   LET pq == PyGetItem(extensions_data.val, "persistedQuery")
                   IN  IF ~pq.ok THEN [outcome |-> "raise", err |-> "TypeError"]
                       ELSE
                       LET in2 == PyIn("sha256Hash", pq.val)
                       IN  IF in2 = "TypeError"
                           THEN [outcome |-> "raise", err |-> "TypeError"]
                           ELSE IF in2 = "False" THEN [outcome |-> "none"]
                           ELSE
                           LET h == PyGetItem(pq.val, "sha256Hash")
                           IN  IF ~h.ok THEN [outcome |-> "raise", err |-> "TypeError"]
                               ELSE [outcome |-> "hash", value |-> h.val]

\* The operation name of a request URL as the script parses it for its log.
OperationName(request_url) == ReSearchParam("operationName=", request_url)

\* Priority order for hash extraction (preferred operations first).
priority_operations ==
  << <<"WatchListPage">>,
     <<"WatchListPage", "Refiner">>,
     <<"PersonalizedUserData">>,
     <<"YourPredefinedListsSidebar">>,
     <<"YourListsSidebar">>,
     <<"YourExports">>,
     <<"RVI_Items">> >>

\* f"operationName={operation_name}" in request_url
MatchesOperation(operation_name, request_url) ==
  Contains(<<"operationName=">> \o operation_name, request_url)

\* Variant of IsGraphqlRequest that forgets the event_type test, so that the
\* response and failure events of a GraphQL call are kept too.
IsGraphqlRequest_AnyEvent(request) ==
  /\ request.url # <<>>
  /\ Contains(<<"api.graphql.imdb.com">>, request.url)

\* The test that keeps a network event as a GraphQL request.
IsGraphqlRequest(request) ==
  /\ request.event_type = "request"
  /\ request.url # <<>>
  /\ Contains(<<"api.graphql.imdb.com">>, request.url)

\* graphql_requests: the kept events, in capture order.
RECURSIVE FilterGraphql(_)
FilterGraphql(network_requests) ==
  IF network_requests = <<>> THEN <<>>
  ELSE (IF IsGraphqlRequest(Head(network_requests))
        THEN <<Head(network_requests)>> ELSE <<>>)
       \o FilterGraphql(Tail(network_requests))

\* found_operations: the distinct operation names, in order of first sight.
RECURSIVE FoundOperations(_, _)
FoundOperations(requests, found) ==
  IF requests = <<>> THEN found
  ELSE LET operation_name == OperationName(Head(requests).url)
           seen == \E i \in 1..Len(found) : found[i] = operation_name
       IN  FoundOperations(Tail(requests),
             IF operation_name # None /\ ~seen
             THEN Append(found, operation_name) ELSE found)

----------------------------------------------------------------------------
(* get_crawl4ai_server_url.  constants.js is [exists, content].             *)

QuoteTokens == {"'", "\""}

\* Length of the longest run of tokens other than quotes starting at i.
RECURSIVE QuoteRunLen(_, _)
QuoteRunLen(text, i) ==
  IF i > Len(text) \/ text[i] \in QuoteTokens THEN 0
  ELSE 1 + QuoteRunLen(text, i + 1)

\* Positions i of an opening quote whose quoted text is not empty and closed.
QuotedAt(text, i) ==
  /\ i <= Len(text) /\ text[i] \in QuoteTokens
  /\ QuoteRunLen(text, i + 1) > 0
  /\ i + QuoteRunLen(text, i + 1) + 1 <= Len(text)

Quoted(text, i) == SubSeq(text, i + 1, i + QuoteRunLen(text, i + 1))

get_crawl4ai_server_url(file) ==
  IF ~file.exists THEN [ok |-> FALSE, err |-> "constants.js file not found"]
  ELSE
  LET content == file.content
      defs == { i \in 1..Len(content) :
                  /\ i + 3 <= Len(content)
                  /\ SubSeq(content, i, i + 2) = <<"const ", "CRAWL4AI_DOCKER_SERVER", "=">>
                  /\ QuotedAt(content, i + 3) }
      ips  == { i \in 1..Len(content) :
                  /\ QuotedAt(content, i)
                  /\ Contains(<<"129.151.250.86:11235">>, Quoted(content, i)) }
      Min(S) == CHOOSE j \in S : \A k \in S : j <= k
  IN  IF defs # {} THEN [ok |-> TRUE, url |-> Quoted(content, Min(defs) + 3)]
      ELSE IF Contains(<<"CRAWL4AI_DOCKER_SERVER">>, content) /\ ips # {}
           THEN [ok |-> TRUE, url |-> Quoted(content, Min(ips))]
      ELSE [ok |-> FALSE,
            err |-> "Error reading constants.js: CRAWL4AI_DOCKER_SERVER not found in constants.js"]

----------------------------------------------------------------------------
(* Inputs: what constants.js holds and what the crawl service answers.      *)

ServerLiteral == <<"http://", "129.151.250.86:11235">>

ConstantsFiles ==
  { [exists |-> FALSE, content |-> <<>>],
    [exists |-> TRUE,
     content |-> <<"const ", "CRAWL4AI_DOCKER_SERVER", "=", "'">> \o ServerLiteral
                 \o <<"'", ";">>],
    [exists |-> TRUE,
     content |-> <<"const ", "CRAWL4AI_DOCKER_SERVER", "=", "'", "'", ";">>],
    [exists |-> TRUE,
     content |-> <<"server:", "\"">> \o ServerLiteral
                 \o <<"\"", "module.exports = {", "CRAWL4AI_DOCKER_SERVER", "}">>],
    [exists |-> TRUE, content |-> <<"const ", "IMDB_API", "=", "'", "x", "'", ";">>] }

\* {"persistedQuery":{"sha256Hash":"<h>"}}, percent-encoded as a browser sends it.
GoodExtensions(h) ==
  <<"%7B", "%22", "persistedQuery", "%22", "%3A",
    "%7B", "%22", "sha256Hash", "%22", "%3A", "%22", h, "%22", "%7D", "%7D">>

Url(host, operation, extensions) ==
  <<"https://", host, "/?">>
  \o (IF operation = <<>> THEN <<>> ELSE <<"operationName=">> \o operation \o <<"&">>)
  \o <<"variables=", "%7B", "%7D">>
  \o (IF extensions = <<>> THEN <<>> ELSE <<"&", "extensions=">> \o extensions)

OperationInputs ==
  { <<"WatchListPage">>, <<"WatchListPage", "Refiner">>,
    <<"PersonalizedUserData">>, <<"TitleReviews">> }

ExtensionInputs ==
  { GoodExtensions("h1"), GoodExtensions("h2"),
    <<"5">>,                                                  \* a number
    <<"%7B", "%22", "persistedQuery">>,                       \* not JSON
    <<"%7B", "%22", "persistedQuery", "%22", "%3A", "%7B", "%7D", "%7D">>,
    <<>> }                                                    \* no parameter

SpecialUrls ==
  { Url("api.graphql.imdb.com", <<>>, GoodExtensions("h1")),
    \* {"persistedQuery":5}
    Url("api.graphql.imdb.com", <<"TitleReviews">>,
        <<"%7B", "%22", "persistedQuery", "%22", "%3A", "5", "%7D">>),
    \* ["persistedQuery"]
    Url("api.graphql.imdb.com", <<"PersonalizedUserData">>,
        <<"%5B", "%22", "persistedQuery", "%22", "%5D">>),
    \* the good document, percent-encoded twice
    Url("api.graphql.imdb.com", <<"WatchListPage">>,
        <<"%25", "7B", "%25", "22", "persistedQuery", "%25", "22", "%25", "3A",
          "%25", "7B", "%25", "22", "sha256Hash", "%25", "22", "%25", "3A",
          "%25", "22", "h1", "%25", "22", "%25", "7D", "%25", "7D">>) }

NetworkEvents ==
  { [event_type |-> "request", url |-> u] :
      u \in { Url("api.graphql.imdb.com", o, e) :
                o \in OperationInputs, e \in ExtensionInputs } \cup SpecialUrls }
  \cup
  { [event_type |-> "response",
     url |-> Url("api.graphql.imdb.com", <<"WatchListPage">>, GoodExtensions("h3"))],
    [event_type |-> "request",
     url |-> Url("www.imdb.com", <<"WatchListPage">>, GoodExtensions("h3"))],
    [event_type |-> "request_failed", url |-> <<>>] }

EventSeqs(n) == UNION { [1..k -> NetworkEvents] : k \in 0..n }

CrawlResult(success, network_requests) ==
  [success |-> success, network_requests |-> network_requests]

\* What client.crawl can return: None, an empty list, a list of one result or
\* a single result object.
CrawlReturns ==
  { [shape |-> "none", items |-> <<>>], [shape |-> "list", items |-> <<>>],
    [shape |-> "list", items |-> <<CrawlResult(FALSE, <<>>)>>],
    [shape |-> "object", items |-> <<CrawlResult(FALSE, <<>>)>>] }
  \cup { [shape |-> "list", items |-> <<CrawlResult(TRUE, r)>>] : r \in EventSeqs(MaxEvents) }
  \cup { [shape |-> "object", items |-> <<CrawlResult(TRUE, r)>>] : r \in EventSeqs(1) }

----------------------------------------------------------------------------
VARIABLES
  pc,                \* where main / extract_imdb_graphql_hash stands
  constants_js,      \* the file ../constants.js
  docker_server_url,
  inflight,          \* remote calls issued and not yet returned
  trace,             \* history: lookups, remote calls, their ends, failures
  results,           \* what client.crawl returned
  result,            \* the crawl result under inspection
  graphql_requests,
  found_operations,
  op_i,              \* position of the outer loop in priority_operations
  req_i,             \* position of the inner loop in graphql_requests
  hash_value,        \* what extract_imdb_graphql_hash returned
  exc,               \* message of the exception being propagated, "" if none
  stdout,            \* the lines printed, in order
  exit_status        \* -1 while the process runs

vars == <<pc, constants_js, docker_server_url, inflight, trace, results, result,
          graphql_requests, found_operations, op_i, req_i, hash_value, exc,
          stdout, exit_status>>

scan_vars == <<graphql_requests, found_operations>>
crawl_vars == <<results, result>>

Log(msg, arg) == [kind |-> "log", msg |-> msg, arg |-> arg]

Init ==
  /\ pc = "main"
  /\ constants_js \in ConstantsFiles
  /\ docker_server_url = None
  /\ inflight = {}
  /\ trace = <<>>
  /\ results = [shape |-> "none", items |-> <<>>]
  /\ result = CrawlResult(FALSE, <<>>)
  /\ graphql_requests = <<>>
  /\ found_operations = <<>>
  /\ op_i = 1
  /\ req_i = 1
  /\ hash_value = [t |-> "unset"]
  /\ exc = ""
  /\ stdout = <<>>
  /\ exit_status = -1

\* An exception raised inside the try block of extract_imdb_graphql_hash.
Raise(msg, event) ==
  /\ exc' = msg
  /\ trace' = Append(trace, event)
  /\ pc' = "extract_except"

\* main calls extract_imdb_graphql_hash, which first looks the server up.
GetServerUrl ==
  /\ pc = "main"
  /\ LET r == get_crawl4ai_server_url(constants_js)
     IN  IF r.ok
         THEN /\ docker_server_url' = r.url
              /\ stdout' = Append(stdout, Log("Using Crawl4AI server", r.url))
              /\ trace' = Append(trace, "lookup_ok")
              /\ pc' = "authenticate"
              /\ exc' = exc
         ELSE /\ stdout' = Append(stdout, Log("Error getting server URL from constants", r.err))
              /\ trace' = Append(trace, "lookup_failed")
              /\ exc' = r.err
              /\ pc' = "main_except"
              /\ docker_server_url' = docker_server_url
  /\ UNCHANGED <<constants_js, inflight, crawl_vars, scan_vars, op_i, req_i,
                 hash_value, exit_status>>

AuthenticateCall ==
  /\ pc = "authenticate"
  /\ inflight' = inflight \cup {"authenticate"}
  /\ trace' = Append(trace, "authenticate_call")
  /\ pc' = "await_authenticate"
  /\ UNCHANGED <<constants_js, docker_server_url, crawl_vars, scan_vars, op_i,
                 req_i, hash_value, exc, stdout, exit_status>>

AuthenticateReturn ==
  /\ pc = "await_authenticate"
  /\ inflight' = inflight \ {"authenticate"}
  /\ trace' = Append(trace, "authenticate_ok")
  /\ pc' = "crawl"
  /\ UNCHANGED <<constants_js, docker_server_url, crawl_vars, scan_vars, op_i,
                 req_i, hash_value, exc, stdout, exit_status>>

\* Variant of AuthenticateRaise that calls authenticate a second time when the
\* first call fails.
AuthenticateRaise_Retry ==
  /\ pc = "await_authenticate"
  /\ inflight' = inflight \ {"authenticate"}
  /\ IF Len(SelectSeq(trace, LAMBDA e : e = "authenticate_call")) < 2
     THEN /\ trace' = Append(trace, "authenticate_failed")
          /\ pc' = "authenticate"
          /\ exc' = exc
     ELSE /\ exc' = "authenticate failed"
          /\ trace' = Append(trace, "authenticate_failed")
          /\ pc' = "extract_except"
  /\ UNCHANGED <<constants_js, docker_server_url, results, result,
                 graphql_requests, found_operations, op_i, req_i, hash_value,
                 stdout, exit_status>>

AuthenticateRaise ==
  /\ pc = "await_authenticate"
  /\ inflight' = inflight \ {"authenticate"}
  /\ Raise("authenticate failed", "authenticate_failed")
  /\ UNCHANGED <<constants_js, docker_server_url, crawl_vars, scan_vars, op_i,
                 req_i, hash_value, stdout, exit_status>>

CrawlCall ==
  /\ pc = "crawl"
  /\ stdout' = Append(stdout, Log("Visiting IMDb watchlist page", <<>>))
  /\ inflight' = inflight \cup {"crawl"}
  /\ trace' = Append(trace, "crawl_call")
  /\ pc' = "await_crawl"
  /\ UNCHANGED <<constants_js, docker_server_url, crawl_vars, scan_vars, op_i,
                 req_i, hash_value, exc, exit_status>>

CrawlReturn ==
  /\ pc = "await_crawl"
  /\ \E r \in CrawlReturns : results' = r
  /\ inflight' = inflight \ {"crawl"}
  /\ trace' = Append(trace, "crawl_ok")
  /\ pc' = "check_results"
  /\ UNCHANGED <<constants_js, docker_server_url, result, scan_vars, op_i,
                 req_i, hash_value, exc, stdout, exit_status>>

CrawlRaise ==
  /\ pc = "await_crawl"
  /\ inflight' = inflight \ {"crawl"}
  /\ Raise("crawl failed", "crawl_failed")
  /\ UNCHANGED <<constants_js, docker_server_url, crawl_vars, scan_vars, op_i,
                 req_i, hash_value, stdout, exit_status>>

\* The checks on what the crawl returned.
CheckResults ==
  /\ pc = "check_results"
  /\ IF results.items = <<>>
     THEN /\ Raise("Crawl failed - no results returned", "no_results")
          /\ UNCHANGED <<result, stdout>>
     ELSE /\ result' = results.items[1]
          /\ IF ~result'.success
             THEN /\ Raise("Failed to load IMDb page", "page_failed")
                  /\ stdout' = stdout
             ELSE IF result'.network_requests = <<>>
             THEN /\ Raise("No network requests captured", "no_network_requests")
                  /\ stdout' = stdout
             ELSE /\ stdout' = Append(stdout,
                        Log("Captured network events", Len(result'.network_requests)))
                  /\ pc' = "filter"
                  /\ UNCHANGED <<exc, trace>>
  /\ UNCHANGED <<constants_js, docker_server_url, inflight, results, scan_vars,
                 op_i, req_i, hash_value, exit_status>>

\* The GraphQL filter and the log of the operations found.
FilterRequests ==
  /\ pc = "filter"
  /\ graphql_requests' = FilterGraphql(result.network_requests)
  /\ found_operations' = FoundOperations(graphql_requests', <<>>)
  /\ stdout' = stdout \o << Log("Found GraphQL requests", Len(graphql_requests')),
                            Log("Found operations", found_operations') >>
  /\ op_i' = 1
  /\ req_i' = 1
  /\ trace' = Append(trace, "scan_started")
  /\ pc' = "priority"
  /\ UNCHANGED <<constants_js, docker_server_url, inflight, crawl_vars,
                 hash_value, exc, exit_status>>

\* The loops move on: the next request, or the next operation from the start.
Advance ==
  IF req_i < Len(graphql_requests)
  THEN /\ req_i' = req_i + 1
       /\ op_i' = op_i
  ELSE /\ req_i' = 1
       /\ op_i' = op_i + 1

\* One iteration of the inner loop of the priority pass.
PriorityIter ==
  /\ pc = "priority"
  /\ op_i <= Len(priority_operations)
  /\ graphql_requests # <<>>
  /\ LET operation_name == priority_operations[op_i]
         request_url == graphql_requests[req_i].url
         found == [kind |-> "found", op |-> operation_name, url |-> request_url]
         r == ExtractHash(request_url)
     IN  IF ~MatchesOperation(operation_name, request_url)
         THEN /\ Advance
              /\ UNCHANGED <<pc, hash_value, exc, trace, stdout>>
         ELSE CASE r.outcome = "hash" ->
                     /\ hash_value' = r.value
                     /\ stdout' = stdout \o
                          <<found, [kind |-> "extracted", op |-> operation_name,
                                    value |-> r.value]>>
                     /\ pc' = "extract_return"
                     /\ UNCHANGED <<op_i, req_i, exc, trace>>
                [] r.outcome = "raise" ->
                     /\ Raise(r.err, "uncaught_error")
                     /\ stdout' = Append(stdout, found)
                     /\ UNCHANGED <<op_i, req_i, hash_value>>
                [] r.outcome = "caught" ->
                     /\ Advance
                     /\ stdout' = stdout \o
                          <<found, Log("Error parsing extensions data", operation_name)>>
                     /\ UNCHANGED <<pc, hash_value, exc, trace>>
                [] OTHER ->
                     /\ Advance
                     /\ stdout' = Append(stdout, found)
                     /\ UNCHANGED <<pc, hash_value, exc, trace>>
  /\ UNCHANGED <<constants_js, docker_server_url, inflight, crawl_vars, scan_vars,
                 exit_status>>

\* The priority pass ends without a return; the fallback pass starts.
PriorityExhausted ==
  /\ pc = "priority"
  /\ op_i > Len(priority_operations) \/ graphql_requests = <<>>
  /\ stdout' = Append(stdout, Log("No priority operations found", <<>>))
  /\ op_i' = Len(priority_operations) + 1
  /\ req_i' = 1
  /\ pc' = "fallback"
  /\ UNCHANGED <<constants_js, docker_server_url, inflight, trace, crawl_vars,
                 scan_vars, hash_value, exc, exit_status>>

\* One iteration of the fallback pass over all GraphQL requests.
FallbackIter ==
  /\ pc = "fallback"
  /\ req_i <= Len(graphql_requests)
  /\ LET request_url == graphql_requests[req_i].url
         operation_match == OperationName(request_url)
         operation_name == IF operation_match # None THEN operation_match
                           ELSE <<"unknown">>
         r == ExtractHash(request_url)
     IN  CASE r.outcome = "hash" ->
                /\ hash_value' = r.value
                /\ stdout' = Append(stdout,
                     [kind |-> "extracted", op |-> operation_name, value |-> r.value])
                /\ pc' = "extract_return"
                /\ UNCHANGED <<req_i, exc, trace>>
           [] r.outcome = "raise" ->
                /\ Raise(r.err, "uncaught_error")
                /\ UNCHANGED <<req_i, hash_value, stdout>>
           [] OTHER ->
                /\ req_i' = req_i + 1
                /\ UNCHANGED <<pc, hash_value, exc, trace, stdout>>
  /\ UNCHANGED <<constants_js, docker_server_url, inflight, crawl_vars, scan_vars,
                 op_i, exit_status>>

\* No request gave a hash.
FallbackExhausted ==
  /\ pc = "fallback"
  /\ req_i > Len(graphql_requests)
  /\ Raise("Could not extract GraphQL hash from any network requests", "no_hash")
  /\ UNCHANGED <<constants_js, docker_server_url, inflight, crawl_vars, scan_vars,
                 op_i, req_i, hash_value, stdout, exit_status>>

\* The except clause of extract_imdb_graphql_hash: log and raise again.
ExtractExcept ==
  /\ pc = "extract_except"
  /\ stdout' = Append(stdout, Log("Error during hash extraction", exc))
  /\ pc' = "main_except"
  /\ UNCHANGED <<constants_js, docker_server_url, inflight, trace, crawl_vars,
                 scan_vars, op_i, req_i, hash_value, exc, exit_status>>

\* Variant of MainReturn in which sys.exit(1) stands after the try statement
\* instead of inside the except clause: the success path reaches it too.
MainReturn_ExitOne ==
  /\ pc = "extract_return"
  /\ stdout' = Append(stdout, [kind |-> "json", success |-> TRUE, hash |-> hash_value])
  /\ exit_status' = 1
  /\ pc' = "done"
  /\ UNCHANGED <<constants_js, docker_server_url, inflight, trace, results, result,
                 graphql_requests, found_operations, op_i, req_i, hash_value, exc>>

\* main got the hash: the success object is printed, the process ends normally.
MainReturn ==
  /\ pc = "extract_return"
  /\ stdout' = Append(stdout, [kind |-> "json", success |-> TRUE, hash |-> hash_value])
  /\ exit_status' = 0
  /\ pc' = "done"
  /\ UNCHANGED <<constants_js, docker_server_url, inflight, trace, crawl_vars,
                 scan_vars, op_i, req_i, hash_value, exc>>

\* Variant of MainExcept without sys.exit(1): the error object is printed and
\* the process ends normally.
MainExcept_NoExit ==
  /\ pc = "main_except"
  /\ stdout' = Append(stdout, [kind |-> "json", success |-> FALSE, error |-> exc])
  /\ exit_status' = 0
  /\ pc' = "done"
  /\ UNCHANGED <<constants_js, docker_server_url, inflight, trace, results, result,
                 graphql_requests, found_operations, op_i, req_i, hash_value, exc>>

\* main caught an exception: the error object is printed, then sys.exit(1).
MainExcept ==
  /\ pc = "main_except"
  /\ stdout' = Append(stdout, [kind |-> "json", success |-> FALSE, error |-> exc])
  /\ exit_status' = 1
  /\ pc' = "done"
  /\ UNCHANGED <<constants_js, docker_server_url, inflight, trace, crawl_vars,
                 scan_vars, op_i, req_i, hash_value, exc>>

Next ==
  \/ GetServerUrl
  \/ AuthenticateCall
  \/ AuthenticateReturn
  \/ AuthenticateRaise
  \/ CrawlCall
  \/ CrawlReturn
  \/ CrawlRaise
  \/ CheckResults
  \/ FilterRequests
  \/ PriorityIter
  \/ PriorityExhausted
  \/ FallbackIter
  \/ FallbackExhausted
  \/ ExtractExcept
  \/ MainReturn
  \/ MainExcept

Spec == Init /\ [][Next]_vars

----------------------------------------------------------------------------
(* Properties *)

Last(seq) == seq[Len(seq)]

InTrace(event) == \E i \in 1..Len(trace) : trace[i] = event

FailureEvents ==
  {"lookup_failed", "authenticate_failed", "crawl_failed", "no_results",
   "page_failed", "no_network_requests", "no_hash", "uncaught_error"}

\* Some step of the run has failed.
Failed == \E i \in 1..Len(trace) : trace[i] \in FailureEvents

\* The positions of the result objects on stdout.
JsonLines == { i \in 1..Len(stdout) : stdout[i].kind = "json" }

\* The request has an `extensions` parameter that decodes to an object with
\* persistedQuery.sha256Hash, and that field is h.
CarriesHash(request_url, h) ==
  LET encoded == ReSearchParam("extensions=", request_url)
      decoded == json_loads(unquote(encoded))
  IN  /\ encoded # None
      /\ decoded.ok
      /\ decoded.val.t = "dict"
      /\ \E i \in 1..Len(decoded.val.members) :
           LET m == decoded.val.members[i]
           IN  /\ m.k = <<"persistedQuery">>
               /\ \A j \in (i + 1)..Len(decoded.val.members) :
                     decoded.val.members[j].k # <<"persistedQuery">>
               /\ m.val.t = "dict"
               /\ \E k \in 1..Len(m.val.members) :
                    /\ m.val.members[k].k = <<"sha256Hash">>
                    /\ \A j \in (k + 1)..Len(m.val.members) :
                          m.val.members[j].k # <<"sha256Hash">>
                    /\ m.val.members[k].val = h

\* The request has an extractable hash.
Extractable(request_url) ==
  \E h \in { [t |-> "str", s |-> <<x>>] : x \in {"h1", "h2", "h3"} } :
     CarriesHash(request_url, h)

\* C1: a run in which a step failed runs nothing but the exception handlers
\* after the failure, never has exit status 0, and ends with exit status 1
\* right after printing a JSON object with success = false and an error message.
C1_FailureExitsOne ==
  Failed =>
    /\ pc \in {"extract_except", "main_except", "done"}
    /\ exit_status # 0
    /\ pc = "done" =>
         /\ exit_status = 1
         /\ Last(stdout).kind = "json"
         /\ Last(stdout).success = FALSE
         /\ Last(stdout).error = exc
         /\ exc # ""

C1_Witness ==
  /\ pc = "done"
  /\ InTrace("no_hash")
  /\ exit_status = 1

\* C2: at most one result object is ever printed and nothing is printed after
\* it; a finished run has printed exactly one, which says success = true with
\* the hash extract_imdb_graphql_hash returned exactly when the exit status is
\* 0, and success = false when the exit status is 1.
C2_OneResultObject ==
  /\ Cardinality(JsonLines) <= 1
  /\ JsonLines \subseteq {Len(stdout)}
  /\ (JsonLines # {}) = (pc = "done")
  /\ pc = "done" =>
       /\ exit_status \in {0, 1}
       /\ Last(stdout).success = (exit_status = 0)
       /\ Last(stdout).success =>
            /\ hash_value.t # "unset"
            /\ Last(stdout).hash = hash_value
            /\ ~Failed
  /\ pc # "done" => exit_status = -1

C2_Witness ==
  /\ pc = "done"
  /\ exit_status = 0
  /\ Last(stdout).kind = "json"
  /\ Last(stdout).success

\* C3: a returned hash is the persistedQuery.sha256Hash of the decoded
\* extensions parameter of a captured event of event_type "request" whose url
\* contains "api.graphql.imdb.com".
C3_HashFromGraphqlRequest ==
  hash_value.t # "unset" =>
    \E i \in 1..Len(result.network_requests) :
       LET e == result.network_requests[i]
       IN  /\ e.event_type = "request"
           /\ Contains(<<"api.graphql.imdb.com">>, e.url)
           /\ CarriesHash(e.url, hash_value)

\* A hash was returned although the first captured event, which is not a
\* GraphQL request, carries another hash.
C3_Witness ==
  /\ pc = "extract_return"
  /\ Len(result.network_requests) = 2
  /\ ~IsGraphqlRequest(result.network_requests[1])
  /\ CarriesHash(result.network_requests[1].url, [t |-> "str", s |-> <<"h3">>])
  /\ hash_value.t = "str"

\* The configuration lookup and the remote calls of the run, in order.
CallEvents ==
  {"lookup_ok", "lookup_failed", "authenticate_call", "authenticate_ok",
   "authenticate_failed", "crawl_call", "crawl_ok", "crawl_failed"}

Calls == SelectSeq(trace, LAMBDA e : e \in CallEvents)

IsPrefix(a, b) == Len(a) <= Len(b) /\ SubSeq(b, 1, Len(a)) = a

\* The remote calls issued and not yet ended, as the history tells them.
Pending ==
  { c \in {"authenticate", "crawl"} :
      \E i \in 1..Len(Calls) :
         /\ Calls[i] = c \o "_call"
         /\ \A j \in (i + 1)..Len(Calls) : Calls[j] \notin {c \o "_ok", c \o "_failed"} }

\* C5: the lookup comes first and nothing is called after it fails;
\* authenticate is called at most once, crawl at most once and only after
\* authenticate returned; a call that failed ends the sequence; at most one
\* remote call is in flight.
C5_SequentialCalls ==
  /\ \/ IsPrefix(Calls, <<"lookup_failed">>)
     \/ IsPrefix(Calls, <<"lookup_ok", "authenticate_call", "authenticate_failed">>)
     \/ IsPrefix(Calls, <<"lookup_ok", "authenticate_call", "authenticate_ok",
                          "crawl_call", "crawl_failed">>)
     \/ IsPrefix(Calls, <<"lookup_ok", "authenticate_call", "authenticate_ok",
                          "crawl_call", "crawl_ok">>)
  /\ Cardinality(inflight) <= 1
  /\ inflight = Pending

\* A run has ended after its crawl call failed.
C5_Witness ==
  /\ pc = "done"
  /\ InTrace("crawl_failed")
  /\ inflight = {}

\* Position of an operation in priority_operations, 0 for any other name.
Rank(operation) ==
  LET hits == { i \in 1..Len(priority_operations) : priority_operations[i] = operation }
  IN  IF hits = {} THEN 0 ELSE CHOOSE i \in hits : TRUE

\* The GraphQL requests of a priority operation that have an extractable hash.
PriorityCandidates ==
  { i \in 1..Len(graphql_requests) :
      /\ Rank(OperationName(graphql_requests[i].url)) > 0
      /\ Extractable(graphql_requests[i].url) }

\* The candidate whose operation comes earliest in the priority list, and the
\* first of them in capture order (0 when there is no candidate).
BestCandidate ==
  IF PriorityCandidates = {} THEN 0
  ELSE CHOOSE i \in PriorityCandidates :
         \A j \in PriorityCandidates :
            LET mine == Rank(OperationName(graphql_requests[i].url))
                other == Rank(OperationName(graphql_requests[j].url))
            IN  mine < other \/ (mine = other /\ i <= j)

\* C4: when requests of priority operations carry an extractable hash, the hash
\* returned is the one of the request whose operation comes earliest in the
\* priority list, and of the first such request in capture order.
C4_PriorityOrder ==
  (pc = "extract_return" /\ PriorityCandidates # {}) =>
     CarriesHash(graphql_requests[BestCandidate].url, hash_value)

\* C6: a request that the priority pass takes for operation P has
\* operationName exactly P.
C6_ExactOperation ==
  \A i \in 1..Len(stdout) :
     stdout[i].kind = "found" => OperationName(stdout[i].url) = stdout[i].op

\* C7: malformed requests are skipped: once the GraphQL requests are filtered
\* and one of them has an extractable hash, no exception is raised and the
\* function returns a hash.
C7_MalformedSkipped ==
  (InTrace("scan_started")
     /\ \E i \in 1..Len(graphql_requests) : Extractable(graphql_requests[i].url)) =>
    /\ exc = ""
    /\ pc = "done" => exit_status = 0

\* The first GraphQL request in capture order with an extractable hash.
FirstExtractable ==
  LET hits == { i \in 1..Len(graphql_requests) : Extractable(graphql_requests[i].url) }
  IN  IF hits = {} THEN 0 ELSE CHOOSE i \in hits : \A j \in hits : i <= j

\* C8: the fallback pass starts only when no request of a priority operation
\* has an extractable hash; its result is the hash of the first GraphQL request
\* with an extractable hash, and when no GraphQL request has one the function
\* raises "Could not extract GraphQL hash from any network requests".
C8_Fallback ==
  /\ pc = "fallback" => PriorityCandidates = {}
  /\ (pc = "extract_return" /\ op_i > Len(priority_operations)) =>
        /\ req_i = FirstExtractable
        /\ CarriesHash(graphql_requests[req_i].url, hash_value)
  /\ (op_i > Len(priority_operations) /\ FirstExtractable = 0 /\ exc # "") =>
        exc = "Could not extract GraphQL hash from any network requests"
  /\ (op_i > Len(priority_operations) /\ FirstExtractable # 0) => exc = ""

====
